---- MODULE Spec2Model ----
(***************************************************************************)
(* Preview play-head of quickcuts: the zustand project store               *)
(* (stores/projectStore.ts), the PreviewPanel component (segment index,    *)
(* cover clock, video sync effect, scrubber) and the keyboard shortcuts of *)
(* App.tsx.                                                                *)
(*                                                                         *)
(* Times are integers in milliseconds (the code uses float seconds for     *)
(* previewTime and video.currentTime, and Date.now() milliseconds for the  *)
(* wall clock).                                                            *)
(*                                                                         *)
(* The store notifies React through useSyncExternalStore, so the re-render *)
(* and the effects that a store write causes run before the next task of   *)
(* the event loop.  Every action below is therefore one task: the handler, *)
(* then the commit (video refs attached/detached), then the effects whose  *)
(* dependencies changed (cleanup first, then the new effect body).         *)
(***************************************************************************)
EXTENDS Integers, Sequences, FiniteSets, TLC

\* ---------------------------------------------------------------- constants
CoverDuration == 4000        \* initialCover.duration: 4 s
DefaultImageDuration == 4000 \* DEFAULT_IMAGE_DURATION: 4 s
SeekStep == 5000             \* arrow keys seek by 5 s
Throttle == 33               \* handleVideoTimeUpdate: 33 ms
Tolerance == 100             \* sync effect: 0.1 s
EndSlack == 100              \* togglePlay: totalDuration - 0.1

\* ------------------------------------------------------------------- bounds
MaxFiles == 2                \* longest media list explored
MaxIntervals == 1            \* most seek intervals alive at once
MaxLeaked == 2               \* the same, where the arrow keys are under test
MaxReordered == 3            \* longest media list where reorder-then-add is under test
MaxExports == 2              \* most calls of startExport not yet settled

\* The files a user can add.  Every add creates a new uuid, so a file that
\* was removed and is added again is a new item with a fresh <video> element.
Files == {"v1", "v2", "i1"}
ClockSteps == {1000}                          \* wall-clock advances explored
ScrubTimes == {0, 1000, 4000, 5000}           \* scrubber values explored
CoverTexts == {"", " ", "T"}                     \* cover texts explored

\* Further files, added only where the preset is under test: a landscape
\* video, a 4:5 video (ratio 0.8), a video whose metadata holds no dimensions.
PresetFiles == {"w1", "s1", "n1"}

FileType(f) == IF f = "i1" THEN "image" ELSE "video"
FileDuration(f) ==
  CASE f = "v1" -> 2000
    [] f = "v2" -> 1000
    [] f = "i1" -> DefaultImageDuration
    [] OTHER    -> 3000
FileTimestamp(f) ==
  CASE f = "v1" -> 2
    [] f = "v2" -> 1
    [] f = "i1" -> 2
    [] f = "s1" -> 3
    [] OTHER    -> 0
FileWidth(f) ==
  CASE f = "w1" -> 1920
    [] f = "s1" -> 800
    [] f = "n1" -> 0
    [] OTHER    -> 1080
FileHeight(f) ==
  CASE f = "w1" -> 1080
    [] f = "s1" -> 1000
    [] f = "n1" -> 0
    [] OTHER    -> 1920

Min(a, b) == IF a < b THEN a ELSE b
Max(a, b) == IF a > b THEN a ELSE b
Abs(a) == IF a < 0 THEN -a ELSE a
Range(s) == {s[i] : i \in DOMAIN s}

\* String.prototype.trim on the texts explored
Trim(text) == IF text = " " THEN "" ELSE text

\* ------------------------------------------------------------ segment index
RECURSIVE AppendMediaTimeKept(_, _, _)
AppendMediaTimeKept(result, time, files) ==
  IF files = <<>> THEN result
  ELSE AppendMediaTimeKept(
         Append(result, [type |-> "media", startTime |-> time,
                         endTime |-> time + FileDuration(Head(files)),
                         item |-> Head(files)]),
         time, Tail(files))

\* PreviewPanel: const segments = useMemo(...)
RECURSIVE AppendMedia(_, _, _)
AppendMedia(result, time, files) ==
  IF files = <<>> THEN result
  ELSE AppendMedia(
         Append(result, [type |-> "media", startTime |-> time,
                         endTime |-> time + FileDuration(Head(files)),
                         item |-> Head(files)]),
         time + FileDuration(Head(files)), Tail(files))

BuildSegmentsUntrimmed(files, text) ==
  IF Len(text) > 0
  THEN AppendMedia(<<[type |-> "cover", startTime |-> 0,
                      endTime |-> CoverDuration, item |-> "cover"]>>,
                   CoverDuration, files)
  ELSE AppendMedia(<<>>, 0, files)

BuildSegments(files, text) ==
  LET showCover == Len(Trim(text)) > 0
  IN  IF showCover
      THEN AppendMedia(<<[type |-> "cover", startTime |-> 0,
                          endTime |-> CoverDuration, item |-> "cover"]>>,
                       CoverDuration, files)
      ELSE AppendMedia(<<>>, 0, files)

RECURSIVE SearchLoopEndInclusive(_, _, _, _)
SearchLoopEndInclusive(segs, time, left, right) ==
  IF left > right THEN Len(segs) - 1
  ELSE LET mid == (left + right) \div 2
           segment == segs[mid + 1]
       IN  IF time >= segment.startTime /\ time <= segment.endTime THEN mid
           ELSE IF time < segment.startTime
                THEN SearchLoopEndInclusive(segs, time, left, mid - 1)
                ELSE SearchLoopEndInclusive(segs, time, mid + 1, right)

RECURSIVE SearchLoopNotFound(_, _, _, _)
SearchLoopNotFound(segs, time, left, right) ==
  IF left > right THEN -1
  ELSE LET mid == (left + right) \div 2
           segment == segs[mid + 1]
       IN  IF time >= segment.startTime /\ time < segment.endTime THEN mid
           ELSE IF time < segment.startTime
                THEN SearchLoopNotFound(segs, time, left, mid - 1)
                ELSE SearchLoopNotFound(segs, time, mid + 1, right)

\* findSegmentIndex: binary search; indexes are 0-based as in the code, so
\* segment i of the code is segs[i + 1] here.
RECURSIVE SearchLoop(_, _, _, _)
SearchLoop(segs, time, left, right) ==
  IF left > right THEN Len(segs) - 1
  ELSE LET mid == (left + right) \div 2
           segment == segs[mid + 1]
       IN  IF time >= segment.startTime /\ time < segment.endTime THEN mid
           ELSE IF time < segment.startTime
                THEN SearchLoop(segs, time, left, mid - 1)
                ELSE SearchLoop(segs, time, mid + 1, right)

findSegmentIndex(segs, time) ==
  IF Len(segs) = 0 THEN -1 ELSE SearchLoop(segs, time, 0, Len(segs) - 1)

\* useTotalDuration
RECURSIVE SumDurations(_)
SumDurations(files) ==
  IF files = <<>> THEN 0 ELSE FileDuration(Head(files)) + SumDurations(Tail(files))

TotalDuration(files, text) ==
  (IF Trim(text) # "" THEN CoverDuration ELSE 0) + SumDurations(files)

\* initialCover.enabled; setCoverEnabled has no caller
CoverEnabled == TRUE

\* MediaTimeline: const showCover = cover.enabled && cover.text.trim().length > 0
TimelineShowCover(text) == CoverEnabled /\ Len(Trim(text)) > 0

\* The duration the held ArrowRight interval computes: cover.enabled (always
\* true, no caller of setCoverEnabled) && cover.text, not trimmed.
IntervalDuration(files, text) ==
  (IF text # "" THEN CoverDuration ELSE 0) + SumDurations(files)

NoSegment == [type |-> "none", startTime |-> 0, endTime |-> 0, item |-> "none"]

\* const currentSegment = useMemo(...): null is NoSegment
CurrentSegment(segs, time) ==
  LET index == findSegmentIndex(segs, time)
  IN  IF index >= 0 THEN segs[index + 1] ELSE NoSegment

IsVideoSegment(seg) == seg.type = "media" /\ FileType(seg.item) = "video"

\* segments[segments.indexOf(currentSegment) + 1], or NoSegment
NextSegment(segs, seg) ==
  LET i == CHOOSE k \in 1..Len(segs) : segs[k] = seg
  IN  IF i + 1 <= Len(segs) THEN segs[i + 1] ELSE NoSegment

\* ------------------------------------------------------------------ presets
getPresetByAspectRatio(width, height) ==
  IF width * 10 < height * 8 THEN "portrait"
  ELSE IF width * 10 > height * 12 THEN "landscape"
  ELSE "square"

DEFAULT_PRESET == "portrait"

\* ALL_PRESETS, by id
Presets == {"portrait", "square", "landscape"}

\* -------------------------------------------------------------------- state
VARIABLES
  mediaFiles,       \* store: sequence of file ids
  coverText,        \* store: cover.text
  selectedPreset,   \* store
  previewTime,      \* store
  isPlaying,        \* store
  videoRefs,        \* PreviewPanel: id -> state of the mounted <video>
  playRejected,     \* the current video, if its play() was rejected in this run of playback
  rafQueue,         \* requestAnimationFrame callbacks (cover ticks) pending
  coverTimerRef,    \* PreviewPanel: coverTimerRef.current (0 is null)
  coverCleanup,     \* whether the last run of the cover effect returned a cleanup
  lastUpdateAge,    \* Date.now() - lastUpdateRef.current, capped at Throttle
  intervals,        \* App: setInterval timers alive
  seekIntervalRef,  \* App: seekIntervalRef.current (0 is null)
  keysDown,         \* arrow keys held while seekIntervalRef holds a timer
  lastOp,           \* history: the task that produced this state
  probePc,          \* render under test: "idle", "built", "located"
  probeTime,        \* render under test: the time handed to findSegmentIndex
  probeSegments,    \* render under test: the segments built
  probeIndex,       \* render under test: the index findSegmentIndex returned
  syncLog,          \* effect under test: the commands the sync effect gave to <video>s
  isExporting,      \* store
  exportCalls       \* useExport: calls of startExport that have not settled, by the await they are at

vars == <<mediaFiles, coverText, selectedPreset, previewTime, isPlaying,
          videoRefs, playRejected, rafQueue, coverTimerRef, coverCleanup,
          lastUpdateAge, intervals, seekIntervalRef, keysDown, lastOp,
          probePc, probeTime, probeSegments, probeIndex, syncLog,
          isExporting, exportCalls>>

exportVars == <<isExporting, exportCalls>>

probeVars == <<probePc, probeTime, probeSegments, probeIndex, syncLog,
               isExporting, exportCalls>>

appVars == <<mediaFiles, coverText, selectedPreset, previewTime, isPlaying,
             videoRefs, playRejected, rafQueue, coverTimerRef, coverCleanup,
             lastUpdateAge, intervals, seekIntervalRef, keysDown, lastOp>>

segments == BuildSegments(mediaFiles, coverText)
totalDuration == TotalDuration(mediaFiles, coverText)
currentSegment == CurrentSegment(segments, previewTime)
hasContent == Len(mediaFiles) > 0 \/ Len(Trim(coverText)) > 0

\* History of the last task: its kind ("scrub", "ArrowLeft", "ArrowRight",
\* "repeat", "tick", "timeupdate", "ended"), the time a scrubber change asked
\* for, the <video> an event came from (or the key of a repeat), and the play state and current segment's item
\* before the task, and whether the <video> a scrubber change aims at was
\* off its target by no more than the tolerance.  Tasks of any other kind
\* leave NoOp.  Where the store or the play button is examined alone, "add"
\* (arg: the number of files added, who: the preset before), "remove" (who:
\* the id), "reorder" (arg: <<fromIndex, toIndex>>) and "toggle" (arg: the
\* previewTime before) are recorded as well.
NoOp == [kind |-> "other", arg |-> 0, who |-> "none", wasPlaying |-> FALSE, wasOn |-> "none", wasNear |-> FALSE]

WasNear(kind, arg) ==
  LET seg == CurrentSegment(segments, arg)
  IN  /\ kind = "scrub"
      /\ IsVideoSegment(seg)
      /\ seg.item \in DOMAIN videoRefs
      /\ videoRefs[seg.item].currentTime # arg - seg.startTime
      /\ Abs(videoRefs[seg.item].currentTime - (arg - seg.startTime)) <= Tolerance

Op(kind, arg, who) == [kind |-> kind, arg |-> arg, who |-> who, wasPlaying |-> isPlaying, wasOn |-> currentSegment.item, wasNear |-> WasNear(kind, arg)]

\* no call of startExport is waiting for the save dialog or for the backend
NoExport == [dialog |-> 0, backend |-> 0]

NewVideo == [paused |-> TRUE, currentTime |-> 0, ended |-> FALSE]

\* requestAnimationFrame / setInterval return a handle never handed out
\* before; only the handles still referenced can be told apart, so the least
\* unreferenced number stands for the new handle.
FreshHandle(used) == CHOOSE h \in 1..(Cardinality(used) + 1) :
                       h \notin used /\ \A k \in 1..(h - 1) : k \in used

Init ==
  /\ mediaFiles = <<>>
  /\ coverText = ""
  /\ selectedPreset = DEFAULT_PRESET
  /\ previewTime = 0
  /\ isPlaying = FALSE
  /\ videoRefs = <<>>
  /\ playRejected = {}
  /\ rafQueue = {}
  /\ coverTimerRef = 0
  /\ coverCleanup = FALSE
  /\ lastUpdateAge = Throttle
  /\ intervals = {}
  /\ seekIntervalRef = 0
  /\ keysDown = {}
  /\ lastOp = NoOp
  /\ probePc = "idle"
  /\ probeTime = 0
  /\ probeSegments = <<>>
  /\ probeIndex = -1
  /\ syncLog = {}
  /\ isExporting = FALSE
  /\ exportCalls = NoExport


\* ------------------------------------------------------- commit and effects
\* ref={(el) => setVideoRef(file.id, el)} on the <video> of every video file:
\* after the commit videoRefs.current holds exactly the mounted elements.
setVideoRef(refs, files) ==
  [id \in {f \in Range(files) : FileType(f) = "video"} |->
     IF id \in DOMAIN refs THEN refs[id] ELSE NewVideo]

CancelsNothing(queue, handle) == queue

\* cancelAnimationFrame(handle)
cancelAnimationFrame(queue, handle) == {t \in queue : t.h # handle}

CleanupKeepsTick(queue, ref) == queue

\* the cleanup returned by the cover effect
CoverEffectCleanup(queue, ref) ==
  IF ref # 0 THEN cancelAnimationFrame(queue, ref) ELSE queue

\* requestAnimationFrame(tick) with the closure of the effect run
ScheduleTick(queue, start, seg, segs) ==
  LET next == NextSegment(segs, seg)
  IN  [h |-> FreshHandle({t.h : t \in queue}),
       startPreviewTime |-> start,
       endTime |-> seg.endTime,
       hasNext |-> next # NoSegment,
       nextStart |-> next.startTime,
       elapsed |-> 0]

CoverClockWhilePaused(playing, seg) == seg.type = "cover"

\* if (isPlaying && currentSegment?.type === 'cover')
CoverClockRuns(playing, seg) == playing /\ seg.type = "cover"

\* The cover timer effect: [queue, ref, cleanup] after the effect ran (or did
\* not run, when its dependencies are unchanged).
CoverEffect(queue, ref, cleanup, depsChanged, playing, seg, segs, time) ==
  IF ~depsChanged THEN [queue |-> queue, ref |-> ref, cleanup |-> cleanup]
  ELSE LET q1 == IF cleanup THEN CoverEffectCleanup(queue, ref) ELSE queue
       IN  IF CoverClockRuns(playing, seg)
           THEN LET t == ScheduleTick(q1, time, seg, segs)
                IN  [queue |-> q1 \cup {t}, ref |-> t.h, cleanup |-> TRUE]
           ELSE [queue |-> q1, ref |-> ref, cleanup |-> FALSE]

\* video.currentTime = t: the element clamps to its duration
SeekVideo(v, id, t) ==
  [v EXCEPT !.currentTime = Max(0, Min(t, FileDuration(id)))]

PauseNone(refs, ids) == refs

\* videoRefs.current.forEach(v => { if (!v.paused) v.pause() }) over `ids`
PauseAll(refs, ids) ==
  [id \in DOMAIN refs |->
     IF id \in ids THEN [refs[id] EXCEPT !.paused = TRUE] ELSE refs[id]]

NoOtherVideos(refs, id) == {}

\* the elements the sync effect pauses on a video segment: all the others
OtherVideos(refs, id) == DOMAIN refs \ {id}

\* whether this run of the sync effect calls video.play()
CallsPlay(refs, depsChanged, playing, seg) ==
  /\ depsChanged
  /\ IsVideoSegment(seg)
  /\ seg.item \in DOMAIN refs
  /\ playing
  /\ refs[seg.item].paused

SyncEffectSeeksAlways(refs, rejected, depsChanged, playing, seg, time, playOk) ==
  IF ~depsChanged THEN [refs |-> refs, rejected |-> rejected]
  ELSE IF ~IsVideoSegment(seg)
  THEN [refs |-> PauseAll(refs, DOMAIN refs), rejected |-> rejected]
  ELSE IF seg.item \notin DOMAIN refs
  THEN [refs |-> refs, rejected |-> rejected]
  ELSE
    LET id == seg.item
        video == refs[id]
        videoTime == time - seg.startTime
        sought == SeekVideo(video, id, videoTime)
        calledPlay == playing /\ sought.paused
        mirrored == IF calledPlay
                    THEN [sought EXCEPT !.paused = ~playOk]
                    ELSE IF ~playing /\ ~sought.paused
                    THEN [sought EXCEPT !.paused = TRUE]
                    ELSE sought
        refs1 == [refs EXCEPT ![id] = mirrored]
    IN  [refs |-> PauseAll(refs1, OtherVideos(refs1, id)),
         rejected |-> IF calledPlay
                      THEN (IF playOk THEN rejected \ {id} ELSE rejected \cup {id})
                      ELSE rejected]

SyncEffectPlayStarts(refs, rejected, depsChanged, playing, seg, time, playOk) ==
  IF ~depsChanged THEN [refs |-> refs, rejected |-> rejected]
  ELSE IF ~IsVideoSegment(seg)
  THEN [refs |-> PauseAll(refs, DOMAIN refs), rejected |-> rejected]
  ELSE IF seg.item \notin DOMAIN refs
  THEN [refs |-> refs, rejected |-> rejected]
  ELSE
    LET id == seg.item
        video == refs[id]
        videoTime == time - seg.startTime
        sought == IF Abs(video.currentTime - videoTime) > Tolerance
                  THEN SeekVideo(video, id, videoTime)
                  ELSE video
        calledPlay == playing /\ sought.paused
        mirrored == IF calledPlay
                    THEN [sought EXCEPT !.paused = FALSE]
                    ELSE IF ~playing /\ ~sought.paused
                    THEN [sought EXCEPT !.paused = TRUE]
                    ELSE sought
        refs1 == [refs EXCEPT ![id] = mirrored]
    IN  [refs |-> PauseAll(refs1, OtherVideos(refs1, id)),
         rejected |-> IF calledPlay
                      THEN (IF playOk THEN rejected \ {id} ELSE rejected \cup {id})
                      ELSE rejected]

\* The sync effect: [refs, rejected] after the effect ran.  playOk is whether
\* the promise of video.play() resolves.
SyncEffect(refs, rejected, depsChanged, playing, seg, time, playOk) ==
  IF ~depsChanged THEN [refs |-> refs, rejected |-> rejected]
  ELSE IF ~IsVideoSegment(seg)
  THEN [refs |-> PauseAll(refs, DOMAIN refs), rejected |-> rejected]
  ELSE IF seg.item \notin DOMAIN refs
  THEN [refs |-> refs, rejected |-> rejected]
  ELSE
    LET id == seg.item
        video == refs[id]
        videoTime == time - seg.startTime
        sought == IF Abs(video.currentTime - videoTime) > Tolerance
                  THEN SeekVideo(video, id, videoTime)
                  ELSE video
        calledPlay == playing /\ sought.paused
        mirrored == IF calledPlay
                    THEN [sought EXCEPT !.paused = ~playOk]
                    ELSE IF ~playing /\ ~sought.paused
                    THEN [sought EXCEPT !.paused = TRUE]
                    ELSE sought
        refs1 == [refs EXCEPT ![id] = mirrored]
    IN  [refs |-> PauseAll(refs1, OtherVideos(refs1, id)),
         rejected |-> IF calledPlay
                      THEN (IF playOk THEN rejected \ {id} ELSE rejected \cup {id})
                      ELSE rejected]

\* The commands one run of the sync effect gives to the <video> elements:
\* the assignment of currentTime ("seek", with the value assigned), play()
\* and pause().
Command(cmd, id, t) == [cmd |-> cmd, id |-> id, t |-> t]

PausesOf(refs, ids) == {Command("pause", id, 0) : id \in {i \in ids : ~refs[i].paused}}

SyncCommandsEager(refs, playing, seg, time) ==
  IF ~IsVideoSegment(seg) THEN PausesOf(refs, DOMAIN refs)
  ELSE IF seg.item \notin DOMAIN refs THEN {}
  ELSE
    LET id == seg.item
        video == refs[id]
        videoTime == time - seg.startTime
    IN  (IF Abs(video.currentTime - videoTime) > Tolerance
         THEN {Command("seek", id, Max(0, Min(videoTime, FileDuration(id))))}
         ELSE {})
        \cup (IF playing THEN {Command("play", id, 0)}
              ELSE {Command("pause", id, 0)})
        \cup PausesOf(refs, OtherVideos(refs, id))

SyncCommands(refs, playing, seg, time) ==
  IF ~IsVideoSegment(seg) THEN PausesOf(refs, DOMAIN refs)
  ELSE IF seg.item \notin DOMAIN refs THEN {}
  ELSE
    LET id == seg.item
        video == refs[id]
        videoTime == time - seg.startTime
    IN  (IF Abs(video.currentTime - videoTime) > Tolerance
         THEN {Command("seek", id, Max(0, Min(videoTime, FileDuration(id))))}
         ELSE {})
        \cup (IF playing /\ video.paused THEN {Command("play", id, 0)}
              ELSE IF ~playing /\ ~video.paused THEN {Command("pause", id, 0)}
              ELSE {})
        \cup PausesOf(refs, OtherVideos(refs, id))

SyncStoreFromVideo(refs, seg, time, playing) ==
  IF IsVideoSegment(seg) /\ seg.item \in DOMAIN refs
  THEN [time |-> seg.startTime + refs[seg.item].currentTime, playing |-> playing]
  ELSE [time |-> time, playing |-> playing]

\* What the sync effect leaves in the store: its body holds no setPreviewTime
\* and no setIsPlaying call.
SyncStore(refs, seg, time, playing) == [time |-> time, playing |-> playing]

\* clearInterval(handle)
clearInterval(timers, handle) == {t \in timers : t.h # handle}

\* the cleanup of the keyboard effect of App: the ref is not reset
KeyboardEffectCleanup(timers, ref) ==
  IF ref # 0 THEN clearInterval(timers, ref) ELSE timers

\* A ref that holds the handle of a callback that has fired or was cancelled
\* behaves like one that holds null: cancelAnimationFrame and clearInterval
\* ignore such a handle.  Both are kept as 0.
LiveHandle(ref, pending) == IF ref \in {t.h : t \in pending} THEN ref ELSE 0

\* handleKeyUp does nothing when seekIntervalRef.current is null, so a key
\* held at that moment is not told apart from a released one.
\*
\* One task of the event loop after its handler has run: the store holds
\* (mf, txt, preset, pt, ip); refs0, queue0, cref0, timers0, iref0 are the
\* component state the handler left; rebuilt says that the handler replaced
\* the mediaFiles array or the cover object (so segments is a new array).
Commit(op, mf, txt, preset, pt, ip, refs0, queue0, cref0, age, timers0, iref0, keys, rebuilt) ==
  LET segs == BuildSegments(mf, txt)
      seg == CurrentSegment(segs, pt)
      segChanged == IF rebuilt
                    THEN seg # NoSegment \/ currentSegment # NoSegment
                    ELSE seg # currentSegment
      coverDeps == ip # isPlaying \/ segChanged \/ rebuilt \/ pt # previewTime
      syncDeps == ip # isPlaying \/ segChanged \/ pt # previewTime
      appDeps == ip # isPlaying \/ pt # previewTime \/ rebuilt
                   \/ preset # selectedPreset
      mounted == setVideoRef(refs0, mf)
      rejected0 == IF ip /\ IsVideoSegment(seg)
                   THEN playRejected \cap {seg.item} \cap DOMAIN mounted
                   ELSE {}
      ce == CoverEffect(queue0, cref0, coverCleanup, coverDeps, ip, seg, segs, pt)
      timers == IF appDeps THEN KeyboardEffectCleanup(timers0, iref0)
                ELSE timers0
  IN  /\ mediaFiles' = mf
      /\ coverText' = txt
      /\ selectedPreset' = preset
      /\ previewTime' = pt
      /\ isPlaying' = ip
      /\ \E playOk \in (IF CallsPlay(mounted, syncDeps, ip, seg)
                        THEN BOOLEAN ELSE {TRUE}) :
           LET se == SyncEffect(mounted, rejected0, syncDeps, ip, seg, pt, playOk)
           IN  /\ videoRefs' = se.refs
               /\ playRejected' = se.rejected
      /\ rafQueue' = ce.queue
      /\ coverTimerRef' = LiveHandle(ce.ref, ce.queue)
      /\ coverCleanup' = ce.cleanup
      /\ lastUpdateAge' = age
      /\ intervals' = timers
      /\ seekIntervalRef' = LiveHandle(iref0, timers)
      /\ keysDown' = IF LiveHandle(iref0, timers) = 0 THEN {} ELSE keys
      /\ lastOp' = op
      /\ UNCHANGED probeVars

\* A task whose handler wrote only the store.
StoreWrite(op, mf, txt, preset, pt, ip, rebuilt) ==
  Commit(op, mf, txt, preset, pt, ip, videoRefs, rafQueue,
         coverTimerRef, lastUpdateAge, intervals, seekIntervalRef, keysDown,
         rebuilt)

\* -------------------------------------------------------- store: media list
\* Array.prototype.sort((a, b) => a.timestamp - b.timestamp): stable
RECURSIVE InsertByTimestamp(_, _)
InsertByTimestamp(sorted, f) ==
  IF sorted = <<>> THEN <<f>>
  ELSE IF FileTimestamp(Head(sorted)) <= FileTimestamp(f)
       THEN <<Head(sorted)>> \o InsertByTimestamp(Tail(sorted), f)
       ELSE <<f>> \o sorted

RECURSIVE SortByTimestamp(_)
SortByTimestamp(files) ==
  IF files = <<>> THEN <<>>
  ELSE InsertByTimestamp(SortByTimestamp(SubSeq(files, 1, Len(files) - 1)),
                         files[Len(files)])

\* allFiles.find(f => f.type === 'video' && f.width && f.height)
FirstVideo(files) ==
  LET hits == {i \in 1..Len(files) : FileType(files[i]) = "video"
                                     /\ FileWidth(files[i]) # 0
                                     /\ FileHeight(files[i]) # 0}
  IN  IF hits = {} THEN "none"
      ELSE files[CHOOSE i \in hits : \A j \in hits : i <= j]

AddedFilesAppended(old, files) == old \o SortByTimestamp(files)

AddedFiles(old, files) == SortByTimestamp(old \o files)

AddedPresetAlways(old, preset, allFiles) ==
  IF Len(allFiles) > 0 /\ FirstVideo(allFiles) # "none"
  THEN getPresetByAspectRatio(FileWidth(FirstVideo(allFiles)),
                              FileHeight(FirstVideo(allFiles)))
  ELSE preset

AddedPreset(old, preset, allFiles) ==
  IF Len(old) = 0 /\ Len(allFiles) > 0 /\ FirstVideo(allFiles) # "none"
  THEN getPresetByAspectRatio(FileWidth(FirstVideo(allFiles)),
                              FileHeight(FirstVideo(allFiles)))
  ELSE preset

\* the lists processFiles can hand to addMediaFiles: new items, never empty
NewFileLists ==
  {s \in UNION {[1..n -> Files] : n \in 1..(MaxFiles - Len(mediaFiles))} :
     /\ \A i, j \in DOMAIN s : i # j => s[i] # s[j]
     /\ Range(s) \cap Range(mediaFiles) = {}}

\* addMediaFiles as a task with history op
AddTask(op, files) ==
  LET allFiles == AddedFiles(mediaFiles, files)
  IN  StoreWrite(op, allFiles, coverText,
                 AddedPreset(mediaFiles, selectedPreset, allFiles),
                 previewTime, isPlaying, TRUE)

addMediaFiles(files) == AddTask(NoOp, files)

RemovedFiles(files, id) == SelectSeq(files, LAMBDA f : f # id)

\* removeMediaFile as a task with history op
RemoveTask(op, id) ==
  StoreWrite(op, RemovedFiles(mediaFiles, id), coverText,
             selectedPreset, previewTime, isPlaying, TRUE)

removeMediaFile(id) == RemoveTask(NoOp, id)

ReorderedFilesSwapped(files, fromIndex, toIndex) ==
  [k \in 1..Len(files) |->
     IF k = fromIndex + 1 THEN files[toIndex + 1]
     ELSE IF k = toIndex + 1 THEN files[fromIndex + 1]
     ELSE files[k]]

\* files.splice(fromIndex, 1); files.splice(toIndex, 0, removed): 0-based
ReorderedFiles(files, fromIndex, toIndex) ==
  LET removed == files[fromIndex + 1]
      rest == SubSeq(files, 1, fromIndex) \o SubSeq(files, fromIndex + 2, Len(files))
  IN  SubSeq(rest, 1, toIndex) \o <<removed>> \o SubSeq(rest, toIndex + 1, Len(rest))

\* reorderMediaFiles as a task with history op
ReorderTask(op, fromIndex, toIndex) ==
  StoreWrite(op, ReorderedFiles(mediaFiles, fromIndex, toIndex),
             coverText, selectedPreset, previewTime, isPlaying, TRUE)

reorderMediaFiles(fromIndex, toIndex) == ReorderTask(NoOp, fromIndex, toIndex)

clearMediaFiles ==
  StoreWrite(NoOp, <<>>, coverText, selectedPreset, previewTime,
             isPlaying, TRUE)

\* updateMediaFile(file.id, { thumbnail }), its only caller: the thumbnail is
\* not part of this model, the new mediaFiles array is
updateMediaFile(id) ==
  StoreWrite(NoOp, mediaFiles, coverText, selectedPreset,
             previewTime, isPlaying, TRUE)

setSelectedPreset(preset) ==
  StoreWrite(NoOp, mediaFiles, coverText, preset, previewTime, isPlaying,
             FALSE)

setCoverText(text) ==
  StoreWrite(NoOp, mediaFiles, text, selectedPreset, previewTime,
             isPlaying, TRUE)

\* ------------------------------------------------------ PreviewPanel: input
TogglePlayTimeAtEnd(time, total) == IF time >= total THEN 0 ELSE time

\* if (previewTime >= totalDuration - 0.1) setPreviewTime(0)
TogglePlayTime(time, total) == IF time >= total - EndSlack THEN 0 ELSE time

\* togglePlay as a task with history op
TogglePlayTask(op) ==
  IF Len(segments) = 0
  THEN StoreWrite(op, mediaFiles, coverText, selectedPreset,
                  previewTime, isPlaying, FALSE)
  ELSE IF isPlaying
  THEN StoreWrite(op, mediaFiles, coverText, selectedPreset,
                  previewTime, FALSE, FALSE)
  ELSE StoreWrite(op, mediaFiles, coverText, selectedPreset,
                  TogglePlayTime(previewTime, totalDuration), TRUE, FALSE)

\* The play button is rendered only when hasContent.
togglePlay ==
  /\ hasContent
  /\ TogglePlayTask(NoOp)

\* <input type="range" min={0} max={totalDuration || 1} value={previewTime}>
ScrubberMax == IF totalDuration = 0 THEN 1000 ELSE totalDuration
ScrubberValue == Max(0, Min(previewTime, ScrubberMax))

ScrubSeekIfDrifted(refs, segs, newTime) ==
  LET segIndex == findSegmentIndex(segs, newTime)
  IN  IF segIndex >= 0
         /\ IsVideoSegment(segs[segIndex + 1])
         /\ segs[segIndex + 1].item \in DOMAIN refs
         /\ Abs(refs[segs[segIndex + 1].item].currentTime
                - (newTime - segs[segIndex + 1].startTime)) > Tolerance
      THEN [refs EXCEPT ![segs[segIndex + 1].item] =
              SeekVideo(@, segs[segIndex + 1].item,
                        newTime - segs[segIndex + 1].startTime)]
      ELSE refs

\* the immediate seek of handleTimeChange
ScrubSeek(refs, segs, newTime) ==
  LET segIndex == findSegmentIndex(segs, newTime)
  IN  IF segIndex >= 0
         /\ IsVideoSegment(segs[segIndex + 1])
         /\ segs[segIndex + 1].item \in DOMAIN refs
         /\ newTime - segs[segIndex + 1].startTime >= 0
      THEN [refs EXCEPT ![segs[segIndex + 1].item] =
              SeekVideo(@, segs[segIndex + 1].item,
                        newTime - segs[segIndex + 1].startTime)]
      ELSE refs

ScrubKeepsPlaying(playing) == playing

\* setIsPlaying(false) of handleTimeChange and of the arrow keys
ScrubPlaying(playing) == FALSE

\* a change event carries a value of the range other than the one shown
handleTimeChange(newTime) ==
  /\ hasContent
  /\ newTime <= ScrubberMax
  /\ newTime # ScrubberValue
  /\ Commit(Op("scrub", newTime, "none"), mediaFiles, coverText, selectedPreset,
            newTime, ScrubPlaying(isPlaying),
            ScrubSeek(videoRefs, segments, newTime),
            rafQueue, coverTimerRef, lastUpdateAge, intervals,
            seekIntervalRef, keysDown, FALSE)

\* ------------------------------------------------------------ App: keyboard
Space ==
  StoreWrite(NoOp, mediaFiles, coverText, selectedPreset, previewTime,
             ~isPlaying, FALSE)

ArrowTime(code, time, total) ==
  IF code = "ArrowLeft" THEN Max(0, time - SeekStep)
  ELSE Min(total, time + SeekStep)

\* window.setInterval(..., 200)
setInterval(timers, code) ==
  [h |-> FreshHandle({t.h : t \in timers}), code |-> code]

\* handleKeyDown for ArrowLeft / ArrowRight: the handler and its commit
ArrowKeyDownTask(code) ==
  LET timer == setInterval(intervals, code)
  IN  Commit(Op(code, 0, "none"), mediaFiles, coverText, selectedPreset,
             ArrowTime(code, previewTime, totalDuration),
             ScrubPlaying(isPlaying),
             videoRefs, rafQueue, coverTimerRef, lastUpdateAge,
             intervals \cup {timer}, timer.h, keysDown \cup {code}, FALSE)

\* keydown of an arrow key that is not an auto-repeat
ArrowKeyDown(code) ==
  /\ code \notin keysDown
  /\ Cardinality(intervals) < MaxIntervals
  /\ ArrowKeyDownTask(code)

\* handleKeyUp
ArrowKeyUp(code) ==
  /\ code \in keysDown
  /\ Commit(NoOp, mediaFiles, coverText, selectedPreset,
            previewTime, isPlaying, videoRefs, rafQueue, coverTimerRef,
            lastUpdateAge,
            IF seekIntervalRef # 0
            THEN clearInterval(intervals, seekIntervalRef) ELSE intervals,
            0, keysDown \ {code}, FALSE)

\* the callbacks of the two seek intervals
IntervalTime(code, time, files, text) ==
  IF code = "ArrowLeft" THEN Max(0, time - SeekStep)
  ELSE Min(IntervalDuration(files, text), time + SeekStep)

SeekInterval(timer) ==
  StoreWrite(Op("repeat", 0, timer.code), mediaFiles, coverText, selectedPreset,
             IntervalTime(timer.code, previewTime, mediaFiles, coverText),
             isPlaying, FALSE)

\* --------------------------------------------------------------- cover clock
\* startPreviewTime + elapsed
TickTime(t) == t.startPreviewTime + t.elapsed

\* what the tick writes when newTime >= endTime: [time, playing]
TickAdvance(t, playing) ==
  IF t.hasNext THEN [time |-> t.nextStart, playing |-> playing]
  ELSE [time |-> 0, playing |-> FALSE]

TickPastEnd(t) == TickTime(t) > t.endTime

\* if (newTime >= endTime)
TickReachedEnd(t) == TickTime(t) >= t.endTime

\* the requestAnimationFrame callback t fires
Tick(t) ==
  LET newTime == TickTime(t)
      fired == rafQueue \ {t}
  IN  IF TickReachedEnd(t)
      THEN Commit(Op("tick", 0, "none"), mediaFiles, coverText, selectedPreset,
                  TickAdvance(t, isPlaying).time,
                  TickAdvance(t, isPlaying).playing,
                  videoRefs, fired, coverTimerRef, lastUpdateAge, intervals,
                  seekIntervalRef, keysDown, FALSE)
      ELSE LET again == [t EXCEPT !.h = FreshHandle({u.h : u \in fired})]
           IN  Commit(Op("tick", 0, "none"), mediaFiles, coverText, selectedPreset,
                      newTime, isPlaying, videoRefs, fired \cup {again},
                      again.h, lastUpdateAge, intervals, seekIntervalRef,
                      keysDown, FALSE)

\* ------------------------------------------------------ backend notifications
TimeUpdateKeepsTime(id, seg, playing, time, total) == time

TimeUpdateAnySender(id, seg, playing, time, total) ==
  IF seg.type = "media"
  THEN Min(seg.startTime + videoRefs[id].currentTime, total)
  ELSE time

\* what handleVideoTimeUpdate publishes when the throttle lets it through
TimeUpdateTime(id, seg, playing, time, total) ==
  IF seg.type = "media" /\ seg.item = id /\ playing
  THEN Min(seg.startTime + videoRefs[id].currentTime, total)
  ELSE time

ThrottledHalf(age) == age * 2 < Throttle

\* if (now - lastUpdateRef.current < 33) return
Throttled(age) == age < Throttle

VideoTimeUpdate(id) ==
  IF Throttled(lastUpdateAge)
  THEN Commit(NoOp, mediaFiles, coverText, selectedPreset,
              previewTime, isPlaying, videoRefs, rafQueue, coverTimerRef,
              lastUpdateAge, intervals, seekIntervalRef, keysDown, FALSE)
  ELSE Commit(Op("timeupdate", 0, id), mediaFiles, coverText, selectedPreset,
              TimeUpdateTime(id, currentSegment, isPlaying, previewTime,
                             totalDuration),
              isPlaying, videoRefs, rafQueue, coverTimerRef, 0, intervals,
              seekIntervalRef, keysDown, FALSE)

EndedHoldsAtEnd(seg, segs, time, playing) ==
  IF seg = NoSegment THEN [time |-> time, playing |-> playing]
  ELSE IF NextSegment(segs, seg) # NoSegment
       THEN [time |-> NextSegment(segs, seg).startTime, playing |-> playing]
       ELSE [time |-> time, playing |-> FALSE]

\* handleVideoEnded: [time, playing] it leaves in the store
EndedResult(seg, segs, time, playing) ==
  IF seg = NoSegment THEN [time |-> time, playing |-> playing]
  ELSE IF NextSegment(segs, seg) # NoSegment
       THEN [time |-> NextSegment(segs, seg).startTime, playing |-> playing]
       ELSE [time |-> 0, playing |-> FALSE]

\* The element reached its end while playing: it pauses itself and fires ended.
VideoEnded(id) ==
  /\ videoRefs[id].ended
  /\ LET r == EndedResult(currentSegment, segments, previewTime, isPlaying)
     IN  Commit(Op("ended", 0, id), mediaFiles, coverText, selectedPreset,
                r.time, r.playing,
                [videoRefs EXCEPT ![id].paused = TRUE, ![id].ended = FALSE],
                rafQueue, coverTimerRef, lastUpdateAge, intervals,
                seekIntervalRef, keysDown, FALSE)

\* ----------------------------------------------------------------- wall clock
\* d ms pass: Date.now() moves, playing elements decode.  The ended event of
\* an element is queued the moment it reaches its end, so it is delivered
\* before the clock moves by another step.
PlayVideo(v, id, d) ==
  IF v.paused \/ v.currentTime >= FileDuration(id) THEN v
  ELSE [v EXCEPT !.currentTime = Min(v.currentTime + d, FileDuration(id)),
                 !.ended = (v.currentTime + d >= FileDuration(id))]

AdvanceClock(d) ==
  /\ \A id \in DOMAIN videoRefs : ~videoRefs[id].ended
  /\ rafQueue' = {[t EXCEPT !.elapsed = Min(t.elapsed + d, CoverDuration)] :
                    t \in rafQueue}
  /\ videoRefs' = [id \in DOMAIN videoRefs |-> PlayVideo(videoRefs[id], id, d)]
  /\ lastUpdateAge' = Min(lastUpdateAge + d, Throttle)
  /\ lastOp' = NoOp
  /\ UNCHANGED <<mediaFiles, coverText, selectedPreset, previewTime,
                 isPlaying, playRejected, coverTimerRef, coverCleanup,
                 intervals, seekIntervalRef, keysDown, probeVars>>

\* ---------------------------------------------------------------------- spec
Next ==
  \/ \E files \in NewFileLists : addMediaFiles(files)
  \/ \E id \in Range(mediaFiles) : removeMediaFile(id)
  \/ \E i, j \in 0..(Len(mediaFiles) - 1) : i # j /\ reorderMediaFiles(i, j)
  \/ Len(mediaFiles) > 0 /\ clearMediaFiles
  \/ \E id \in Range(mediaFiles) : updateMediaFile(id)
  \/ \E text \in CoverTexts : setCoverText(text)
  \/ togglePlay
  \/ \E newTime \in ScrubTimes : handleTimeChange(newTime)
  \/ Space
  \/ \E code \in {"ArrowLeft", "ArrowRight"} : ArrowKeyDown(code)
  \/ \E code \in {"ArrowLeft", "ArrowRight"} : ArrowKeyUp(code)
  \/ \E timer \in intervals : SeekInterval(timer)
  \/ \E t \in rafQueue : Tick(t)
  \/ \E id \in DOMAIN videoRefs : VideoTimeUpdate(id)
  \/ \E id \in DOMAIN videoRefs : VideoEnded(id)
  \/ \E d \in ClockSteps : AdvanceClock(d)

Spec == Init /\ [][Next]_vars

\* ------------------------------------------------ the segment index, alone
\* The segments memo and findSegmentIndex are pure.  IndexSpec applies them
\* to every media list, cover text and time below: one render that builds
\* the segments and one call of findSegmentIndex on them.
ProbeLists ==
  {s \in UNION {[1..n -> Files] : n \in 0..MaxFiles} :
     \A i, j \in DOMAIN s : i # j => s[i] # s[j]}

ProbeTexts == {"", " ", "T"}

\* times from 1 s before the timeline to 1 s after it, in steps of 0.5 s
ProbeTimes(files, text) ==
  {500 * k : k \in -2..(TotalDuration(files, text) \div 500 + 2)}

IndexInit ==
  /\ mediaFiles \in ProbeLists
  /\ coverText \in ProbeTexts
  /\ selectedPreset = DEFAULT_PRESET
  /\ previewTime = 0
  /\ isPlaying = FALSE
  /\ videoRefs = setVideoRef(<<>>, mediaFiles)
  /\ playRejected = {}
  /\ rafQueue = {}
  /\ coverTimerRef = 0
  /\ coverCleanup = FALSE
  /\ lastUpdateAge = Throttle
  /\ intervals = {}
  /\ seekIntervalRef = 0
  /\ keysDown = {}
  /\ lastOp = NoOp
  /\ probePc = "idle"
  /\ probeTime \in ProbeTimes(mediaFiles, coverText)
  /\ probeSegments = <<>>
  /\ probeIndex = -1
  /\ syncLog = {}
  /\ isExporting = FALSE
  /\ exportCalls = NoExport

\* const segments = useMemo(...)
BuildProbe ==
  /\ probePc = "idle"
  /\ probeSegments' = BuildSegments(mediaFiles, coverText)
  /\ probePc' = "built"
  /\ UNCHANGED <<appVars, probeTime, probeIndex, syncLog, exportVars>>

\* findSegmentIndex(segments, time)
LocateProbe ==
  /\ probePc = "built"
  /\ probeIndex' = findSegmentIndex(probeSegments, probeTime)
  /\ probePc' = "located"
  /\ UNCHANGED <<appVars, probeTime, probeSegments, syncLog, exportVars>>

IndexNext == BuildProbe \/ LocateProbe

IndexSpec == IndexInit /\ [][IndexNext]_vars

\* ------------------------------------------------------- the scrubber, alone
\* ScrubSpec starts from the paused states of the program (any media list,
\* cover text and previewTime of the scrubber's range) with every <video> at
\* a position of ScrubPositions - the one of the current segment within the
\* tolerance of previewTime, as the sync effect leaves it - and moves the
\* scrubber.
ScrubPositions == {0, 950, 1000}

ScrubInit ==
  /\ mediaFiles \in ProbeLists
  /\ coverText \in CoverTexts
  /\ selectedPreset = DEFAULT_PRESET
  /\ previewTime \in {t \in ScrubTimes : t <= TotalDuration(mediaFiles, coverText)}
  /\ isPlaying = FALSE
  /\ videoRefs \in [DOMAIN setVideoRef(<<>>, mediaFiles) ->
                      {[paused |-> TRUE, currentTime |-> c, ended |-> FALSE] :
                         c \in ScrubPositions}]
  /\ \A id \in DOMAIN videoRefs : videoRefs[id].currentTime <= FileDuration(id)
  /\ IsVideoSegment(currentSegment) =>
       Abs(videoRefs[currentSegment.item].currentTime
           - (previewTime - currentSegment.startTime)) <= Tolerance
  /\ playRejected = {}
  /\ rafQueue = {}
  /\ coverTimerRef = 0
  /\ coverCleanup = FALSE
  /\ lastUpdateAge = Throttle
  /\ intervals = {}
  /\ seekIntervalRef = 0
  /\ keysDown = {}
  /\ lastOp = NoOp
  /\ probePc = "idle"
  /\ probeTime = 0
  /\ probeSegments = <<>>
  /\ probeIndex = -1
  /\ syncLog = {}
  /\ isExporting = FALSE
  /\ exportCalls = NoExport

ScrubNext == \E newTime \in ScrubTimes : handleTimeChange(newTime)

ScrubSpec == ScrubInit /\ [][ScrubNext]_vars

\* ---------------------------------------------------- the sync effect, alone
\* SyncSpec starts from the states in which the sync effect can run - a
\* handler has written the store, the commit has mounted a <video> for every
\* video file, and at most one of them (the one the effect left playing on
\* its last run) plays - and runs the effect once.
SyncPositions == {0, 900, 950, 2000}

SyncInit ==
  /\ mediaFiles \in ProbeLists
  /\ coverText \in CoverTexts
  /\ selectedPreset = DEFAULT_PRESET
  /\ previewTime \in ScrubTimes
  /\ isPlaying \in BOOLEAN
  /\ videoRefs \in [DOMAIN setVideoRef(<<>>, mediaFiles) ->
                      {[paused |-> p, currentTime |-> c, ended |-> FALSE] :
                         p \in BOOLEAN, c \in SyncPositions}]
  /\ \A id \in DOMAIN videoRefs : videoRefs[id].currentTime <= FileDuration(id)
  /\ Cardinality({id \in DOMAIN videoRefs : ~videoRefs[id].paused}) <= 1
  /\ playRejected = {}
  /\ rafQueue = {}
  /\ coverTimerRef = 0
  /\ coverCleanup = FALSE
  /\ lastUpdateAge = Throttle
  /\ intervals = {}
  /\ seekIntervalRef = 0
  /\ keysDown = {}
  /\ lastOp = NoOp
  /\ probePc = "idle"
  /\ probeTime = 0
  /\ probeSegments = <<>>
  /\ probeIndex = -1
  /\ syncLog = {}
  /\ isExporting = FALSE
  /\ exportCalls = NoExport

\* one run of the sync effect
RunSyncEffect ==
  /\ probePc = "idle"
  /\ \E playOk \in (IF CallsPlay(videoRefs, TRUE, isPlaying, currentSegment)
                    THEN BOOLEAN ELSE {TRUE}) :
       LET se == SyncEffect(videoRefs, {}, TRUE, isPlaying, currentSegment,
                            previewTime, playOk)
       IN  /\ videoRefs' = se.refs
           /\ playRejected' = se.rejected
  /\ previewTime' = SyncStore(videoRefs, currentSegment, previewTime, isPlaying).time
  /\ isPlaying' = SyncStore(videoRefs, currentSegment, previewTime, isPlaying).playing
  /\ syncLog' = SyncCommands(videoRefs, isPlaying, currentSegment, previewTime)
  /\ probePc' = "synced"
  /\ UNCHANGED <<mediaFiles, coverText, selectedPreset, rafQueue,
                 coverTimerRef, coverCleanup, lastUpdateAge, intervals,
                 seekIntervalRef, keysDown, lastOp, probeTime, probeSegments,
                 probeIndex, exportVars>>

SyncNext == RunSyncEffect

SyncSpec == SyncInit /\ [][SyncNext]_vars

\* ------------------------------------------------------- the throttle, alone
\* ThrottleSpec starts from a populated timeline without cover, paused at 0
\* with fresh <video> elements, and lets the user toggle playback while the
\* wall clock moves in steps shorter than the throttle, over a window of a
\* few steps, with timeupdate events from every <video> at any moment.
ThrottleSteps == {11}
ThrottleWindow == 77

ThrottleInit ==
  /\ mediaFiles \in ProbeLists
  /\ Len(mediaFiles) > 0
  /\ coverText = ""
  /\ selectedPreset = DEFAULT_PRESET
  /\ previewTime = 0
  /\ isPlaying = FALSE
  /\ videoRefs = setVideoRef(<<>>, mediaFiles)
  /\ playRejected = {}
  /\ rafQueue = {}
  /\ coverTimerRef = 0
  /\ coverCleanup = FALSE
  /\ lastUpdateAge = Throttle
  /\ intervals = {}
  /\ seekIntervalRef = 0
  /\ keysDown = {}
  /\ lastOp = NoOp
  /\ probePc = "idle"
  /\ probeTime = 0
  /\ probeSegments = <<>>
  /\ probeIndex = -1
  /\ syncLog = {}
  /\ isExporting = FALSE
  /\ exportCalls = NoExport

ShortClockStep(d) ==
  /\ \A id \in DOMAIN videoRefs : videoRefs[id].currentTime + d <= ThrottleWindow
  /\ AdvanceClock(d)

ThrottleNext ==
  \/ togglePlay
  \/ \E id \in DOMAIN videoRefs : VideoTimeUpdate(id)
  \/ \E d \in ThrottleSteps : ShortClockStep(d)

ThrottleSpec == ThrottleInit /\ [][ThrottleNext]_vars

\* ---------------------------------------------------- the media list, alone
\* AddSpec starts from the fresh store and takes only the actions on the
\* media list and the preset, with files of every aspect ratio; it records
\* each addMediaFiles in lastOp: the number of files added and the preset
\* selected before the call.
AddLists ==
  {s \in UNION {[1..n -> Files \cup PresetFiles] :
                  n \in 1..(MaxFiles - Len(mediaFiles))} :
     /\ \A i, j \in DOMAIN s : i # j => s[i] # s[j]
     /\ Range(s) \cap Range(mediaFiles) = {}}

AddRecorded(files) == AddTask(Op("add", Len(files), selectedPreset), files)

AddNext ==
  \/ \E files \in AddLists : AddRecorded(files)
  \/ \E id \in Range(mediaFiles) : removeMediaFile(id)
  \/ \E i, j \in 0..(Len(mediaFiles) - 1) : i # j /\ reorderMediaFiles(i, j)
  \/ Len(mediaFiles) > 0 /\ clearMediaFiles
  \/ \E preset \in Presets : setSelectedPreset(preset)

AddSpec == Init /\ [][AddNext]_vars

\* ------------------------------------------------- reorder, then add, alone
\* ReorderSpec is the store from its start with lists long enough to hold
\* two files dragged out of their timestamp order and one more added later.
LaterLists ==
  {s \in UNION {[1..n -> Files \cup PresetFiles] :
                  n \in 1..(MaxReordered - Len(mediaFiles))} :
     /\ \A i, j \in DOMAIN s : i # j => s[i] # s[j]
     /\ Range(s) \cap Range(mediaFiles) = {}}

\* removeMediaFile(id) for the id of any file, in the list or not
RemoveRecorded(id) == RemoveTask(Op("remove", 0, id), id)

\* handleDragEnd: active.id !== over.id, both indexes from findIndex
ReorderRecorded(fromIndex, toIndex) ==
  /\ fromIndex # toIndex
  /\ ReorderTask(Op("reorder", <<fromIndex, toIndex>>, "none"), fromIndex, toIndex)

ReorderNext ==
  \/ \E files \in LaterLists : AddRecorded(files)
  \/ \E id \in Files \cup PresetFiles : RemoveRecorded(id)
  \/ \E i, j \in 0..(Len(mediaFiles) - 1) : ReorderRecorded(i, j)

ReorderSpec == Init /\ [][ReorderNext]_vars

\* ------------------------------------------------------------- export, alone
\* useExport: canExport (selectedPreset is never null: the store starts with
\* DEFAULT_PRESET and setSelectedPreset takes a preset)
CanExport(files, preset, exporting) ==
  Len(files) > 0 /\ preset \in Presets /\ ~exporting

canExport == CanExport(mediaFiles, selectedPreset, isExporting)

\* A task of useExport after it wrote isExporting: App renders again and,
\* when canExport changed, its keyboard effect runs again (cleanup first).
\* No other effect depends on isExporting.
ExportCommit(exporting, calls) ==
  LET appDeps == CanExport(mediaFiles, selectedPreset, exporting) # canExport
      timers == IF appDeps THEN KeyboardEffectCleanup(intervals, seekIntervalRef)
                ELSE intervals
  IN  /\ isExporting' = exporting
      /\ exportCalls' = calls
      /\ intervals' = timers
      /\ seekIntervalRef' = LiveHandle(seekIntervalRef, timers)
      /\ keysDown' = IF LiveHandle(seekIntervalRef, timers) = 0 THEN {}
                     ELSE keysDown
      /\ lastOp' = NoOp
      /\ UNCHANGED <<mediaFiles, coverText, selectedPreset, previewTime,
                     isPlaying, videoRefs, playRejected, rafQueue,
                     coverTimerRef, coverCleanup, lastUpdateAge, probePc,
                     probeTime, probeSegments, probeIndex, syncLog>>

\* The Export button (disabled unless canExport; handleExport returns unless
\* canExport) or Cmd+E (if (canExport)): startExport runs up to its awaits of
\* downloadDir() and save().  isExporting is not written yet.
startExport ==
  /\ canExport
  /\ exportCalls.dialog + exportCalls.backend < MaxExports
  /\ ExportCommit(isExporting, [exportCalls EXCEPT !.dialog = @ + 1])

\* save() resolves with null: return null, then finally setIsExporting(false)
SaveDialogCancelled ==
  /\ exportCalls.dialog > 0
  /\ ExportCommit(FALSE, [exportCalls EXCEPT !.dialog = @ - 1])

\* save() resolves with a path: setIsExporting(true), invoke('export_video')
SaveDialogChosen ==
  /\ exportCalls.dialog > 0
  /\ ExportCommit(TRUE, [exportCalls EXCEPT !.dialog = @ - 1,
                                            !.backend = @ + 1])

\* invoke('export_video') resolves or rejects: finally setIsExporting(false)
ExportSettles ==
  /\ exportCalls.backend > 0
  /\ ExportCommit(FALSE, [exportCalls EXCEPT !.backend = @ - 1])

\* The Cancel button of ProgressModal, shown while isExporting: the backend
\* is not told
cancelExport ==
  /\ isExporting
  /\ ExportCommit(FALSE, exportCalls)

\* ExportSpec is the application from its start with the media list, the
\* preset and the export controls.
ExportNext ==
  \/ \E files \in NewFileLists : addMediaFiles(files)
  \/ \E id \in Range(mediaFiles) : removeMediaFile(id)
  \/ \E preset \in Presets : setSelectedPreset(preset)
  \/ startExport
  \/ SaveDialogCancelled
  \/ SaveDialogChosen
  \/ ExportSettles
  \/ cancelExport

ExportSpec == Init /\ [][ExportNext]_vars

\* ------------------------------------------------------ the play button, alone
\* ToggleSpec starts from the paused states of the program with content (any
\* media list and cover text, previewTime around the end of the timeline and
\* elsewhere, every <video> as the sync effect leaves a new element there)
\* and presses the play button.
ToggleTimes(total) ==
  {t \in {0, total - 1000, total - EndSlack - 1, total - EndSlack,
          total - 50, total, total + 1000} : t >= 0}

ToggleInit ==
  /\ mediaFiles \in ProbeLists
  /\ coverText \in CoverTexts
  /\ Len(BuildSegments(mediaFiles, coverText)) > 0
  /\ selectedPreset = DEFAULT_PRESET
  /\ previewTime \in ToggleTimes(TotalDuration(mediaFiles, coverText))
  /\ isPlaying = FALSE
  /\ videoRefs = SyncEffect(setVideoRef(<<>>, mediaFiles), {}, TRUE, FALSE,
                            currentSegment, previewTime, TRUE).refs
  /\ playRejected = {}
  /\ rafQueue = {}
  /\ coverTimerRef = 0
  /\ coverCleanup = FALSE
  /\ lastUpdateAge = Throttle
  /\ intervals = {}
  /\ seekIntervalRef = 0
  /\ keysDown = {}
  /\ lastOp = NoOp
  /\ probePc = "idle"
  /\ probeTime = 0
  /\ probeSegments = <<>>
  /\ probeIndex = -1
  /\ syncLog = {}
  /\ isExporting = FALSE
  /\ exportCalls = NoExport

TogglePlayRecorded ==
  /\ hasContent
  /\ TogglePlayTask(Op("toggle", previewTime, "none"))

ToggleNext == TogglePlayRecorded

ToggleSpec == ToggleInit /\ [][ToggleNext]_vars

\* ------------------------------------------------------------ playback, alone
\* PlaySpec starts from a populated timeline, paused at 0 with fresh <video>
\* elements, lets the user press play and then only lets time pass: cover
\* ticks, timeupdate and ended events and the wall clock, each of which
\* happens eventually when it stays possible (the browser runs every frame
\* callback and delivers every media event it has queued).
PlayInit ==
  /\ mediaFiles \in ProbeLists
  /\ coverText \in CoverTexts
  /\ Len(BuildSegments(mediaFiles, coverText)) > 0
  /\ selectedPreset = DEFAULT_PRESET
  /\ previewTime = 0
  /\ isPlaying = FALSE
  /\ videoRefs = setVideoRef(<<>>, mediaFiles)
  /\ playRejected = {}
  /\ rafQueue = {}
  /\ coverTimerRef = 0
  /\ coverCleanup = FALSE
  /\ lastUpdateAge = Throttle
  /\ intervals = {}
  /\ seekIntervalRef = 0
  /\ keysDown = {}
  /\ lastOp = NoOp
  /\ probePc = "idle"
  /\ probeTime = 0
  /\ probeSegments = <<>>
  /\ probeIndex = -1
  /\ syncLog = {}
  /\ isExporting = FALSE
  /\ exportCalls = NoExport

PressPlay == ~isPlaying /\ togglePlay

FrameCallback == \E t \in rafQueue : Tick(t)

TimeUpdateEvent == \E id \in DOMAIN videoRefs : VideoTimeUpdate(id)

EndedEvent == \E id \in DOMAIN videoRefs : VideoEnded(id)

TimePasses == \E d \in ClockSteps : AdvanceClock(d)

PlayNext ==
  \/ PressPlay
  \/ FrameCallback
  \/ TimeUpdateEvent
  \/ EndedEvent
  \/ TimePasses

PlaySpec ==
  /\ PlayInit
  /\ [][PlayNext]_vars
  /\ WF_vars(FrameCallback)
  /\ WF_vars(TimeUpdateEvent)
  /\ WF_vars(EndedEvent)
  /\ WF_vars(TimePasses)

\* ---------------------------------------------------------- arrow keys, alone
\* KeySpec is the application from its start with the inputs that matter to
\* the seek intervals: files are added, the scrubber is moved, the arrow keys
\* go down and up and the intervals fire.  A second interval may be created
\* while one is alive.
HeldArrowKeyDown(code) ==
  /\ code \notin keysDown
  /\ Cardinality(intervals) < MaxLeaked
  /\ ArrowKeyDownTask(code)

KeyNext ==
  \/ \E files \in NewFileLists : addMediaFiles(files)
  \/ \E newTime \in ScrubTimes : handleTimeChange(newTime)
  \/ \E code \in {"ArrowLeft", "ArrowRight"} : HeldArrowKeyDown(code)
  \/ \E code \in {"ArrowLeft", "ArrowRight"} : ArrowKeyUp(code)
  \/ \E timer \in intervals : SeekInterval(timer)

KeySpec == Init /\ [][KeyNext]_vars

\* ==================================================================== claims
Playing == {id \in DOMAIN videoRefs : ~videoRefs[id].paused}

\* C1: in every reachable state previewTime lies in [0, totalDuration].
PreviewTimeInRange == 0 <= previewTime /\ previewTime <= totalDuration

\* C2: a change of the media list or of the cover text leaves isPlaying as it
\* was and leaves previewTime at min(old previewTime, new totalDuration).
StructuralChangeClamps ==
  [][(mediaFiles' # mediaFiles \/ coverText' # coverText)
       => /\ isPlaying' = isPlaying
          /\ previewTime' = Min(previewTime, totalDuration')]_vars

\* C3: a scrub (scrubber change or arrow key) taken while playing on the cover
\* with a tick pending leaves previewTime at the time asked for, isPlaying
\* false and no tick pending, so that the tick can never write afterwards.
ScrubOverridesClock ==
  [][(/\ isPlaying
      /\ currentSegment.type = "cover"
      /\ rafQueue # {}
      /\ lastOp'.kind \in {"scrub", "ArrowLeft", "ArrowRight"})
       => /\ previewTime' =
               (CASE lastOp'.kind = "scrub" -> lastOp'.arg
                  [] lastOp'.kind = "ArrowLeft" -> Max(0, previewTime - SeekStep)
                  [] OTHER -> Min(totalDuration, previewTime + SeekStep))
          /\ ~isPlaying'
          /\ rafQueue' = {}]_vars

ScrubbedOffPlayingCover ==
  /\ lastOp.kind = "scrub"
  /\ lastOp.wasPlaying
  /\ lastOp.wasOn = "cover"
  /\ lastOp.arg = 1000
  /\ previewTime = 1000

\* C4: at most one tick of the cover clock is pending in any reachable state.
AtMostOneTick == Cardinality(rafQueue) <= 1

TickScheduledAgain ==
  /\ lastOp.kind = "tick"
  /\ isPlaying
  /\ currentSegment.type = "cover"
  /\ previewTime > 0
  /\ Cardinality(rafQueue) = 1

\* C5: whenever the state is not (playing and on the cover) no tick of the
\* cover clock is pending, and a tick only ever fires - and so only ever
\* writes previewTime - while playing on the cover.
CoverTickReleased ==
  /\ [](~(isPlaying /\ currentSegment.type = "cover") => rafQueue = {})
  /\ [][lastOp'.kind = "tick"
          => (isPlaying /\ currentSegment.type = "cover")]_vars

TickAdvancedToMedia ==
  /\ lastOp.kind = "tick"
  /\ lastOp.wasPlaying
  /\ isPlaying
  /\ currentSegment.type = "media"
  /\ rafQueue = {}

\* C6 as stated: in every playing state exactly one registered <video> plays.
ExactlyOnePlaying == isPlaying => Cardinality(Playing) = 1

\* C6: in every playing state no registered <video> other than the one of the
\* current segment plays, and that one plays when the current segment is a
\* video whose play() was not rejected.
SingleActiveBackend ==
  isPlaying =>
    /\ \A id \in Playing : IsVideoSegment(currentSegment) /\ id = currentSegment.item
    /\ (IsVideoSegment(currentSegment) /\ currentSegment.item \notin playRejected)
         => currentSegment.item \in Playing

OnePlayingOfTwo ==
  /\ isPlaying
  /\ Cardinality(DOMAIN videoRefs) = 2
  /\ IsVideoSegment(currentSegment)
  /\ Playing = {currentSegment.item}
  /\ previewTime > currentSegment.startTime

EndOfTimelineRewind ==
  [][/\ (/\ lastOp'.kind = "ended"
         /\ IsVideoSegment(currentSegment)
         /\ lastOp'.who = currentSegment.item
         /\ NextSegment(segments, currentSegment) = NoSegment)
          => (previewTime' = 0 /\ ~isPlaying')
     /\ (/\ lastOp'.kind = "tick"
         /\ Len(segments) = 1
         /\ \A t \in rafQueue : TickTime(t) >= t.endTime)
          => (previewTime' = 0 /\ ~isPlaying')]_vars

RewoundAfterLastVideo ==
  /\ lastOp.kind = "ended"
  /\ lastOp.wasPlaying
  /\ lastOp.wasOn = lastOp.who
  /\ previewTime = 0
  /\ ~isPlaying

\* C9: when the <video> of a segment i that is not the last one ends while
\* playing, with previewTime still in segment i or already published as the
\* start of segment i + 1 by its last timeupdate, the ended task leaves
\* previewTime at the start of segment i + 1 and segment i + 1 current.
SegmentAdvanceByOne ==
  [][\A i \in 1..(Len(segments) - 1) :
       (/\ lastOp'.kind = "ended"
        /\ lastOp'.who = segments[i].item
        /\ isPlaying
        /\ videoRefs[segments[i].item].currentTime = FileDuration(segments[i].item)
        /\ (currentSegment = segments[i]
            \/ previewTime = segments[i + 1].startTime))
       => /\ previewTime' = segments[i + 1].startTime
          /\ currentSegment' = segments[i + 1]]_vars

\* C10: a scrubber change leaves previewTime at the value of the change, an
\* ArrowLeft at max(0, previewTime - 5 s), an ArrowRight at
\* min(totalDuration, previewTime + 5 s); each leaves isPlaying false.
ScrubInterrupts ==
  [][/\ lastOp'.kind = "scrub"
          => (previewTime' = lastOp'.arg /\ ~isPlaying')
     /\ lastOp'.kind = "ArrowLeft"
          => (previewTime' = Max(0, previewTime - SeekStep) /\ ~isPlaying')
     /\ lastOp'.kind = "ArrowRight"
          => (previewTime' = Min(totalDuration, previewTime + SeekStep)
              /\ ~isPlaying')]_vars

ArrowLeftStoppedPlayback ==
  /\ lastOp.kind = "ArrowLeft"
  /\ lastOp.wasPlaying
  /\ lastOp.wasOn # "cover"
  /\ ~isPlaying
  /\ previewTime = 0

LocateAgreesWithScan ==
  (/\ probePc = "located"
   /\ 0 <= probeTime
   /\ probeTime < TotalDuration(mediaFiles, coverText))
    => /\ probeIndex \in 0..(Len(probeSegments) - 1)
       /\ \A i \in 0..(Len(probeSegments) - 1) :
            (/\ probeSegments[i + 1].startTime <= probeTime
             /\ probeTime < probeSegments[i + 1].endTime) <=> i = probeIndex

LocatedOnSharedBoundary ==
  /\ probePc = "located"
  /\ coverText = "T"
  /\ Len(mediaFiles) = 2
  /\ probeTime = CoverDuration
  /\ probeIndex = 1

\* C16: for a non-empty segment list and a time at or after totalDuration
\* findSegmentIndex returns the last index; for an empty list it returns -1.
LocateClampsRight ==
  probePc = "located" =>
    /\ (Len(probeSegments) > 0
        /\ probeTime >= TotalDuration(mediaFiles, coverText))
         => probeIndex = Len(probeSegments) - 1
    /\ Len(probeSegments) = 0 => probeIndex = -1

LocatedAtTimelineEnd ==
  /\ probePc = "located"
  /\ Len(probeSegments) = 3
  /\ probeTime = probeSegments[3].endTime
  /\ probeIndex = 2

\* C17: the segments built start at 0, each ends where the next one starts,
\* and the last one ends at the totalDuration of useTotalDuration (0 for none).
SegmentsContiguous ==
  probePc # "idle" =>
    /\ Len(probeSegments) > 0 => probeSegments[1].startTime = 0
    /\ \A i \in 1..(Len(probeSegments) - 1) :
         probeSegments[i].endTime = probeSegments[i + 1].startTime
    /\ TotalDuration(mediaFiles, coverText) =
         (IF Len(probeSegments) = 0 THEN 0
          ELSE probeSegments[Len(probeSegments)].endTime)

BuiltCoverAndTwoMedia ==
  /\ probePc = "built"
  /\ Len(mediaFiles) = 2
  /\ Len(probeSegments) = 3
  /\ probeSegments[3].endTime = CoverDuration + SumDurations(mediaFiles)

\* C18: the segments built hold a cover segment exactly when the trimmed cover
\* text is not empty; it is then segment 0 over [0, cover.duration) and the
\* only cover segment; the media segments follow, one per item of the media
\* list in its order, each as long as its item.
CoverPlacedFirst ==
  probePc # "idle" =>
    LET hasCover == Trim(coverText) # ""
        offset == IF hasCover THEN 1 ELSE 0
    IN  /\ Len(probeSegments) = Len(mediaFiles) + offset
        /\ hasCover => /\ probeSegments[1].type = "cover"
                       /\ probeSegments[1].startTime = 0
                       /\ probeSegments[1].endTime = CoverDuration
        /\ \A i \in 1..Len(mediaFiles) :
             /\ probeSegments[i + offset].type = "media"
             /\ probeSegments[i + offset].item = mediaFiles[i]
             /\ probeSegments[i + offset].endTime
                  - probeSegments[i + offset].startTime = FileDuration(mediaFiles[i])

BuiltWithoutCoverForBlankText ==
  /\ probePc = "built"
  /\ coverText = " "
  /\ Len(mediaFiles) = 2
  /\ Len(probeSegments) = 2
  /\ probeSegments[1].type = "media"

\* C11: a scrubber change to newTime leaves the <video> of the video segment
\* findSegmentIndex(segments, newTime) at newTime - segment.startTime, also
\* when it was off that position by no more than the tolerance, and leaves
\* the position of every other <video> as it was.
ScrubSeeksOwner ==
  [][lastOp'.kind = "scrub" =>
       LET seg == CurrentSegment(segments, lastOp'.arg)
           owner == IF IsVideoSegment(seg) /\ seg.item \in DOMAIN videoRefs
                    THEN {seg.item} ELSE {}
       IN  /\ \A id \in owner :
                videoRefs'[id].currentTime = lastOp'.arg - seg.startTime
           /\ \A id \in DOMAIN videoRefs \ owner :
                videoRefs'[id].currentTime = videoRefs[id].currentTime]_vars

ScrubbedWithinTolerance ==
  /\ lastOp.kind = "scrub"
  /\ lastOp.wasNear
  /\ Cardinality(DOMAIN videoRefs) = 2
  /\ IsVideoSegment(currentSegment)
  /\ videoRefs[currentSegment.item].currentTime
       = lastOp.arg - currentSegment.startTime

\* C12: every seek leaves previewTime at max(0, min(t, totalDuration)) for
\* the time t it asks for: the value of a scrubber change, previewTime - 5 s
\* for ArrowLeft, previewTime + 5 s for ArrowRight, on keydown and on every
\* repeat of a held key.
SeekClamped ==
  [][LET asked == CASE lastOp'.kind = "scrub" -> lastOp'.arg
                    [] lastOp'.kind = "ArrowLeft" -> previewTime - SeekStep
                    [] lastOp'.kind = "ArrowRight" -> previewTime + SeekStep
                    [] lastOp'.kind = "repeat" /\ lastOp'.who = "ArrowLeft"
                         -> previewTime - SeekStep
                    [] OTHER -> previewTime + SeekStep
     IN  lastOp'.kind \in {"scrub", "ArrowLeft", "ArrowRight", "repeat"}
           => previewTime' = Max(0, Min(asked, totalDuration))]_vars

\* C13: while the timeline is empty, a step that toggles isPlaying or that is
\* a scrub or seek leaves isPlaying false and previewTime as it was.
EmptyTimelineInert ==
  [][(/\ Len(segments) = 0
      /\ Len(segments') = 0
      /\ \/ isPlaying' # isPlaying
         \/ lastOp'.kind \in {"scrub", "ArrowLeft", "ArrowRight", "repeat"})
       => (~isPlaying' /\ previewTime' = previewTime)]_vars

\* C19: a tick of the cover clock that computes a time below the cover's end
\* publishes that time; one that computes a time at or past the end
\* publishes the start of the next segment instead, or rewinds to 0 and
\* pauses when the cover is the only segment.
CoverClockInRange ==
  [][lastOp'.kind = "tick" =>
       \A t \in rafQueue :
         IF t.startPreviewTime + t.elapsed < currentSegment.endTime
         THEN /\ previewTime' = t.startPreviewTime + t.elapsed
              /\ isPlaying' = isPlaying
         ELSE IF Len(segments) > 1
         THEN previewTime' = segments[2].startTime /\ isPlaying' = isPlaying
         ELSE previewTime' = 0 /\ ~isPlaying']_vars

TickPublishedInsideCover ==
  /\ lastOp.kind = "tick"
  /\ lastOp.wasOn = "cover"
  /\ previewTime = CoverDuration - 1000
  /\ currentSegment.type = "cover"

\* C20: a timeupdate that passes the throttle, from the <video> of the current
\* media segment while playing, leaves previewTime at
\* segment.startTime + video.currentTime clamped to [0, totalDuration].
MediaDrivenClock ==
  [][(/\ lastOp'.kind = "timeupdate"
      /\ isPlaying
      /\ currentSegment.type = "media"
      /\ currentSegment.item = lastOp'.who)
       => previewTime' =
            Max(0, Min(currentSegment.startTime
                         + videoRefs[lastOp'.who].currentTime,
                       totalDuration))]_vars

TimeUpdatePublished ==
  /\ lastOp.kind = "timeupdate"
  /\ lastOp.wasPlaying
  /\ lastOp.wasOn = lastOp.who
  /\ isPlaying
  /\ currentSegment.item = lastOp.who
  /\ previewTime = currentSegment.startTime + videoRefs[lastOp.who].currentTime
  /\ previewTime > currentSegment.startTime

\* C23: a run of the sync effect leaves previewTime and isPlaying as they
\* were, whatever it does to the <video> elements.
SyncWritesOnlyBackends ==
  [][probePc' = "synced"
       => (previewTime' = previewTime /\ isPlaying' = isPlaying)]_vars

SyncedBySeekAndPlay ==
  /\ probePc = "synced"
  /\ isPlaying
  /\ previewTime = 1000
  /\ IsVideoSegment(currentSegment)
  /\ Command("play", currentSegment.item, 0) \in syncLog
  /\ \E c \in syncLog : c.cmd = "seek" /\ c.id = currentSegment.item
  /\ ~videoRefs[currentSegment.item].paused

\* C24: a run of the sync effect on a video segment assigns currentTime of
\* that segment's <video> - and of no other - exactly when it is off
\* previewTime - segment.startTime by more than the tolerance, and the value
\* assigned is that target clamped to [0, duration]; within the tolerance
\* nothing is assigned and the position stays.
DriftCorrection ==
  [][(probePc' = "synced" /\ IsVideoSegment(currentSegment)) =>
       LET id == currentSegment.item
           target == previewTime - currentSegment.startTime
           clamped == Max(0, Min(target, FileDuration(id)))
           seeks == {c \in syncLog' : c.cmd = "seek"}
       IN  IF Abs(videoRefs[id].currentTime - target) > Tolerance
           THEN /\ seeks = {Command("seek", id, clamped)}
                /\ videoRefs'[id].currentTime = clamped
           ELSE /\ seeks = {}
                /\ videoRefs'[id].currentTime = videoRefs[id].currentTime]_vars

SyncedWithinTolerance ==
  /\ probePc = "synced"
  /\ IsVideoSegment(currentSegment)
  /\ previewTime - currentSegment.startTime = 1000
  /\ videoRefs[currentSegment.item].currentTime = 950
  /\ {c \in syncLog : c.cmd = "seek"} = {}
  /\ syncLog # {}

\* C25: when the play() the sync effect calls is rejected, isPlaying stays
\* true, previewTime stays, and the <video> stays paused.
RejectedPlaySwallowed ==
  [][(probePc' = "synced" /\ playRejected' # {}) =>
       /\ isPlaying /\ isPlaying'
       /\ previewTime' = previewTime
       /\ \A id \in playRejected' :
            /\ id = currentSegment.item
            /\ Command("play", id, 0) \in syncLog'
            /\ videoRefs'[id].paused]_vars

SyncedWithRejectedPlay ==
  /\ probePc = "synced"
  /\ playRejected = {"v1"}
  /\ isPlaying
  /\ videoRefs["v1"].paused
  /\ Command("play", "v1", 0) \in syncLog

\* C30: a run of the sync effect on a video segment whose <video> is mounted
\* calls play() on it when isPlaying and it is paused, pause() when not
\* isPlaying and it plays, and neither when it already matches.
PlayPauseMirrored ==
  [][(/\ probePc' = "synced"
      /\ IsVideoSegment(currentSegment)
      /\ currentSegment.item \in DOMAIN videoRefs) =>
       LET id == currentSegment.item
           video == videoRefs[id]
           cmds == {c \in syncLog' : c.id = id /\ c.cmd \in {"play", "pause"}}
       IN  /\ (isPlaying /\ video.paused) => cmds = {Command("play", id, 0)}
           /\ (~isPlaying /\ ~video.paused)
                => (cmds = {Command("pause", id, 0)} /\ videoRefs'[id].paused)
           /\ (isPlaying <=> ~video.paused)
                => (cmds = {} /\ videoRefs'[id].paused = video.paused)]_vars

SyncedAlreadyPlaying ==
  /\ probePc = "synced"
  /\ isPlaying
  /\ IsVideoSegment(currentSegment)
  /\ ~videoRefs[currentSegment.item].paused
  /\ playRejected = {}
  /\ syncLog = {Command("seek", currentSegment.item, 1000)}

\* C26: a timeupdate is accepted - and so publishes previewTime - only when
\* at least 33 ms have passed since the last accepted one; one that arrives
\* earlier changes nothing in the store, the <video> elements or the refs.
ThrottleHolds ==
  [][\A id \in DOMAIN videoRefs :
       VideoTimeUpdate(id) =>
         /\ (previewTime' # previewTime \/ lastOp'.kind = "timeupdate")
              => lastUpdateAge >= Throttle
         /\ lastUpdateAge < Throttle
              => UNCHANGED <<mediaFiles, coverText, selectedPreset, previewTime,
                             isPlaying, videoRefs, rafQueue, lastUpdateAge>>]_vars

ThrottledAfterPublication ==
  /\ isPlaying
  /\ IsVideoSegment(currentSegment)
  /\ currentSegment.startTime = 0
  /\ ~videoRefs[currentSegment.item].paused
  /\ videoRefs[currentSegment.item].currentTime = 55
  /\ previewTime = 33
  /\ lastUpdateAge = 22
  /\ lastOp = NoOp

PresetOnFirstPopulation ==
  [][\A files \in AddLists :
       AddRecorded(files) =>
         LET withDims == {i \in 1..Len(mediaFiles') :
                            /\ FileType(mediaFiles'[i]) = "video"
                            /\ FileWidth(mediaFiles'[i]) > 0
                            /\ FileHeight(mediaFiles'[i]) > 0}
             first == mediaFiles'[CHOOSE i \in withDims : \A j \in withDims : i <= j]
         IN  IF Len(mediaFiles) = 0 /\ withDims # {}
             THEN selectedPreset' =
                    (IF FileWidth(first) * 10 < FileHeight(first) * 8
                     THEN "portrait"
                     ELSE IF FileWidth(first) * 10 > FileHeight(first) * 12
                     THEN "landscape"
                     ELSE "square")
             ELSE selectedPreset' = selectedPreset]_vars

PresetFromFirstVideoWithSize ==
  /\ lastOp.kind = "add"
  /\ lastOp.who = "portrait"
  /\ lastOp.wasOn = "none"
  /\ mediaFiles = <<"n1", "w1">>
  /\ selectedPreset = "landscape"

\* C29: when no play() is rejected, every playing state is followed by the
\* end-of-timeline state: isPlaying false and previewTime 0.
PlaybackCompletes ==
  [](playRejected = {}) => (isPlaying ~> (~isPlaying /\ previewTime = 0))

\* C21: a timeupdate - throttled or not - from a <video> that is not the one
\* of the current segment, or one handled while paused, leaves previewTime and
\* isPlaying as they were.
TimeUpdateAdvisory ==
  [][\A id \in DOMAIN videoRefs :
       (/\ lastOp'.kind \in {"other", "timeupdate"}
        /\ ~isPlaying \/ currentSegment.item # id
        /\ VideoTimeUpdate(id))
       => (previewTime' = previewTime /\ isPlaying' = isPlaying)]_vars

TimeUpdateFromOtherVideo ==
  /\ lastOp.kind = "timeupdate"
  /\ lastOp.wasPlaying
  /\ lastOp.who # lastOp.wasOn
  /\ lastOp.wasOn \in DOMAIN videoRefs
  /\ isPlaying
  /\ currentSegment.item = lastOp.wasOn
  /\ previewTime # currentSegment.startTime + videoRefs[lastOp.who].currentTime
  /\ videoRefs[lastOp.who].currentTime > 0

\* C22: an ended event from a <video> other than the one of the current
\* segment, or one handled while paused or while the current segment is a
\* cover or an image, leaves previewTime and isPlaying as they were.
EndedFromOwnerOnly ==
  [][(/\ lastOp'.kind = "ended"
      /\ \/ ~isPlaying
         \/ ~IsVideoSegment(currentSegment)
         \/ currentSegment.item # lastOp'.who)
       => (previewTime' = previewTime /\ isPlaying' = isPlaying)]_vars

\* C31: hold-to-seek intervals are scoped to the key press.  At most one
\* arrow-key seek interval is alive at any time (and none is once the arrow
\* keys are up), also when the second arrow key goes down before the first
\* is released.
AtMostOneSeekInterval == Cardinality(intervals) <= 1

\* C32: cover presence is derived consistently.  In every reachable store
\* state the segment list of the preview contains a cover segment iff
\* useTotalDuration includes the cover duration iff the duration computed by
\* the held ArrowRight interval includes it iff the timeline strip shows the
\* cover item.
CoverDerivedConsistently ==
  LET inSegments == \E i \in DOMAIN segments : segments[i].type = "cover"
      inTotal == totalDuration = CoverDuration + SumDurations(mediaFiles)
      inInterval == IntervalDuration(mediaFiles, coverText)
                      = CoverDuration + SumDurations(mediaFiles)
      inTimeline == TimelineShowCover(coverText)
  IN  /\ inSegments <=> inTotal
      /\ inTotal <=> inInterval
      /\ inInterval <=> inTimeline

\* C33: a manual reorder survives later additions.  addMediaFiles keeps the
\* relative order of all files that were in the list before it (a list that
\* is not in timestamp order has been reordered by hand: every add sorts and
\* a removal keeps the order).
ReorderSurvivesAdd ==
  [][lastOp'.kind = "add"
     => SelectSeq(mediaFiles', LAMBDA f : f \in Range(mediaFiles)) = mediaFiles]_vars

\* C34: at most one export is in flight.  canExport is false for as long as
\* the backend export that a call of startExport began is still running, also
\* after cancelExport, so that neither the Export button nor Cmd+E begins a
\* second one.
ExportRunningBlocksExport == exportCalls.backend > 0 => ~canExport

\* C35: starting playback at the end rewinds first.  When togglePlay starts
\* playback on a non-empty timeline with previewTime >= totalDuration - 0.1,
\* previewTime is 0 when isPlaying is true; started anywhere else previewTime
\* is unchanged; and when togglePlay pauses, previewTime is unchanged.
TogglePlayRewinds ==
  [][lastOp'.kind = "toggle" =>
       /\ isPlaying' = ~isPlaying
       /\ previewTime' = IF ~isPlaying /\ previewTime >= totalDuration - EndSlack
                         THEN 0 ELSE previewTime]_vars

\* playback was started 0.1 s before the end of a timeline and began at 0
StartedWithinEndSlack ==
  /\ lastOp.kind = "toggle"
  /\ ~lastOp.wasPlaying
  /\ lastOp.arg = totalDuration - EndSlack
  /\ isPlaying
  /\ previewTime = 0

\* C36: reorderMediaFiles(fromIndex, toIndex) with both indexes within bounds
\* yields a permutation of the list in which the moved item is at toIndex and
\* all other items keep their relative order; removeMediaFile(id) removes
\* exactly the items with that id, keeps the order of the rest and is a
\* no-op for an unknown id; neither changes selectedPreset or cover.
ReorderAndRemoveKeepOrder ==
  [][/\ lastOp'.kind = "reorder" =>
          LET moved == mediaFiles[lastOp'.arg[1] + 1]
          IN  /\ Len(mediaFiles') = Len(mediaFiles)
              /\ Range(mediaFiles') = Range(mediaFiles)
              /\ mediaFiles'[lastOp'.arg[2] + 1] = moved
              /\ SelectSeq(mediaFiles', LAMBDA f : f # moved)
                   = SelectSeq(mediaFiles, LAMBDA f : f # moved)
              /\ selectedPreset' = selectedPreset
              /\ coverText' = coverText
     /\ lastOp'.kind = "remove" =>
          /\ Range(mediaFiles') = Range(mediaFiles) \ {lastOp'.who}
          /\ \A a, b \in DOMAIN mediaFiles' :
                a < b => \E c, d \in DOMAIN mediaFiles :
                           /\ c < d
                           /\ mediaFiles[c] = mediaFiles'[a]
                           /\ mediaFiles[d] = mediaFiles'[b]
          /\ Len(mediaFiles') = Len(mediaFiles)
                                 - (IF lastOp'.who \in Range(mediaFiles) THEN 1 ELSE 0)
          /\ lastOp'.who \notin Range(mediaFiles) => mediaFiles' = mediaFiles
          /\ selectedPreset' = selectedPreset
          /\ coverText' = coverText]_vars

\* the first of three files was dragged to the end
MovedFirstToLast ==
  /\ lastOp.kind = "reorder"
  /\ lastOp.arg = <<0, 2>>
  /\ Len(mediaFiles) = 3

\* C37: the throttle bounds only publications.  During Playing, a timeUpdate
\* from the active backend that arrives at least 33 ms after the last
\* published media-driven update is always published, whatever timeUpdate
\* notifications of other backends or discarded notifications came in
\* between.  (The active <video> plays in real time from the moment
\* playback starts, so its position is ahead of previewTime by the time that
\* has passed since previewTime was last published.)
ThrottleBoundsOnlyPublications ==
  [][\A id \in DOMAIN videoRefs :
       (/\ isPlaying
        /\ IsVideoSegment(currentSegment)
        /\ currentSegment.item = id
        /\ ~videoRefs[id].paused
        /\ currentSegment.startTime + videoRefs[id].currentTime - previewTime
             >= Throttle
        /\ VideoTimeUpdate(id))
       => previewTime' = Min(currentSegment.startTime + videoRefs[id].currentTime,
                             totalDuration)]_vars
====
